---- MODULE Spec2Model ----
(***************************************************************************)
(* A model of the `resources` crate: the type-indexed container            *)
(* (src/src/map.rs), its guards (src/src/refs.rs) and the non-blocking     *)
(* reader/writer lock behind every slot (src/src/lock.rs).                 *)
(*                                                                         *)
(* Worker threads share `&Resources` and call get / get_mut and drop the   *)
(* guards they obtained.  Every call is stepped through the atomic         *)
(* operations the lock performs on its counter: the load in `state()` is   *)
(* one step, the fetch_add / fetch_sub / store that follows is another.    *)
(* Structural operations (insert, remove, entry) take `&mut Resources`,    *)
(* which the borrow checker grants only while no guard is alive and no     *)
(* call is in progress; they run as one step each.                         *)
(*                                                                         *)
(* The lock of a slot is the ResourcesRwLock of lock.rs: Ref and RefMut    *)
(* are lock_api guards over it (refs.rs:8-10), taken with try_read and     *)
(* try_write and released by the guards' drop.  The field type in map.rs   *)
(* still spells parking_lot::RwLock; the guards decide which lock runs.    *)
(*                                                                         *)
(* LockSpec drives one ResourcesRwLock directly through its RawRwLock      *)
(* methods and records the calls that returned.                            *)
(***************************************************************************)
EXTENDS Integers, Sequences, FiniteSets, TLC

\* ---------------------------------------------------------------- bounds
NThreads == 2
NTypes == 2
MaxVal == 1
MaxHeld == 1

Threads == 1 .. NThreads
Types == 1 .. NTypes
Values == 0 .. MaxVal
Fns == [Values -> Values]

\* The thread id used in `ret` for the holder of `&mut Resources`.
Owner == 0
NoType == 0
NoVal == -1

VARIABLES
    resources,  \* Resources::resources: TypeId -> [value, counter]
    pc,         \* per thread: the lock operation it is in the middle of
    held,       \* per thread and type: the guards (Ref / RefMut) it owns
    panicking,  \* per thread: it is unwinding from a panic
    entryRef,   \* the type whose RefMut<'a> an entry call returned, or NoType
    aborted,    \* the process is gone (panic while panicking, or in the owner)
    ret,        \* the call that returned last, and what it returned
    lock,       \* the counter of a ResourcesRwLock driven through RawRwLock
    at,         \* per thread: the RawRwLock call it is in the middle of
    owns,       \* per thread: the locks it acquired and has not released
    hist        \* the RawRwLock calls that returned, in the order they did

cvars == <<resources, pc, held, panicking, entryRef, aborted, ret>>

lvars == <<lock, at, owns, hist>>

vars == <<resources, pc, held, panicking, entryRef, aborted, ret,
          lock, at, owns, hist>>

\* ------------------------------------------------------------ lock.rs
\* The value of AtomicIsize::new(0) in RawRwLock::INIT.
INIT == 0

state(counter) ==
    CASE counter = 0 -> "Free"
      [] counter = -1 -> "Exclusive"
      [] OTHER -> "Shared"

lock_shared_unchecked(counter) == counter + 1

\* Mutant of unlock_shared_unchecked: the reader count is left as it was.
unlock_shared_unchecked_forgets(counter) == counter

unlock_shared_unchecked(counter) == counter - 1

lock_exclusive_unchecked(counter) == -1

unlock_exclusive_unchecked(counter) == 0

\* `can_lock` of try_lock_shared, from the state it loaded.
try_lock_shared(st) ==
    CASE st = "Free" -> TRUE
      [] st = "Exclusive" -> FALSE
      [] st = "Shared" -> TRUE

\* Mutant of try_lock_exclusive: readers do not keep a writer out.
try_lock_exclusive_over_readers(st) ==
    CASE st = "Free" -> TRUE
      [] st = "Exclusive" -> FALSE
      [] st = "Shared" -> TRUE

\* `can_lock` of try_lock_exclusive, from the state it loaded.
try_lock_exclusive(st) ==
    CASE st = "Free" -> TRUE
      [] st = "Exclusive" -> FALSE
      [] st = "Shared" -> FALSE

\* unlock_shared reaches its unchecked decrement only from Shared.
unlock_shared(st) ==
    CASE st = "Free" -> "panic"
      [] st = "Exclusive" -> "panic"
      [] st = "Shared" -> "unlock"

\* Mutant of unlock_exclusive: a lock that readers hold is released too.
unlock_exclusive_any(st) ==
    CASE st = "Free" -> "panic"
      [] st = "Shared" -> "unlock"
      [] st = "Exclusive" -> "unlock"

\* unlock_exclusive reaches its unchecked store only from Exclusive.
unlock_exclusive(st) ==
    CASE st = "Free" -> "panic"
      [] st = "Exclusive" -> "unlock"
      [] st = "Shared" -> "panic"

\* ------------------------------------------------------------ helpers
Idle == [at |-> "idle", ty |-> NoType]

NotCalling == [op |-> "none", next |-> "none", inv |-> 0]

NoGuards == [ty \in Types |-> [sh |-> 0, ex |-> 0]]

RECURSIVE SumOver(_, _)
SumOver(f, S) ==
    IF S = {} THEN 0
    ELSE LET x == CHOOSE y \in S : TRUE IN f[x] + SumOver(f, S \ {x})

\* Number of guards thread t owns.
HeldBy(t) == SumOver([ty \in Types |-> held[t][ty].sh + held[t][ty].ex], Types)

\* Live guards on a slot, over all threads, plus the entry's RefMut.
LiveShared(ty) == SumOver([t \in Threads |-> held[t][ty].sh], Threads)

LiveExclusive(ty) ==
    SumOver([t \in Threads |-> held[t][ty].ex], Threads)
        + (IF entryRef = ty THEN 1 ELSE 0)

\* `&mut Resources` can be borrowed: nothing borrows the container.
Quiescent ==
    /\ ~aborted
    /\ entryRef = NoType
    /\ \A t \in Threads : pc[t] = Idle /\ ~panicking[t] /\ held[t] = NoGuards

\* A worker may start a call on `&Resources`.
CanCall(t) ==
    /\ ~aborted
    /\ entryRef = NoType
    /\ pc[t] = Idle
    /\ ~panicking[t]

Ret(t, op, ty, res, val) == [t |-> t, op |-> op, ty |-> ty, res |-> res, val |-> val]

\* Mutant of SetCounter: one counter for the whole container.
SetCounter_every(ty, c) ==
    [x \in DOMAIN resources |-> [resources[x] EXCEPT !.counter = c]]

SetCounter(ty, c) == [resources EXCEPT ![ty].counter = c]

\* ------------------------------------------------------------ Init
Init ==
    /\ resources = << >>
    /\ pc = [t \in Threads |-> Idle]
    /\ held = [t \in Threads |-> NoGuards]
    /\ panicking = [t \in Threads |-> FALSE]
    /\ entryRef = NoType
    /\ aborted = FALSE
    /\ ret = Ret(Owner, "new", NoType, "Ok", NoVal)
    /\ lock = INIT
    /\ at = [t \in Threads |-> NotCalling]
    /\ owns = [t \in Threads |-> [sh |-> 0, ex |-> 0]]
    /\ hist = << >>


\* ------------------------------------------------ map.rs: shared access
\* Mutant of contains: the slot is looked at through its lock, so a slot
\* that is exclusively held is reported as absent.
contains_try_read(t, ty) ==
    /\ CanCall(t)
    /\ ret' = Ret(t, "contains", ty,
                  IF ty \in DOMAIN resources
                     /\ try_lock_shared(state(resources[ty].counter))
                  THEN "true" ELSE "false", NoVal)
    /\ UNCHANGED <<resources, pc, held, panicking, entryRef, aborted>>
    /\ UNCHANGED lvars

\* Resources::contains: a key lookup, no lock is touched.
contains(t, ty) ==
    /\ CanCall(t)
    /\ ret' = Ret(t, "contains", ty,
                  IF ty \in DOMAIN resources THEN "true" ELSE "false", NoVal)
    /\ UNCHANGED <<resources, pc, held, panicking, entryRef, aborted>>
    /\ UNCHANGED lvars

\* Resources::get up to and including the load in try_lock_shared:
\* the key lookup, then Ref::from_lock -> try_read -> state().
\* A thread that owns MaxHeld guards makes no call that would give it another.
get(t, ty) ==
    /\ CanCall(t)
    /\ IF ty \notin DOMAIN resources
       THEN /\ ret' = Ret(t, "get", ty, "NoSuchResource", NoVal)
            /\ UNCHANGED pc
       ELSE IF try_lock_shared(state(resources[ty].counter))
            THEN /\ HeldBy(t) < MaxHeld
                 /\ pc' = [pc EXCEPT ![t] = [at |-> "try_lock_shared", ty |-> ty]]
                 /\ UNCHANGED ret
            ELSE /\ ret' = Ret(t, "get", ty, "Immutable", NoVal)
                 /\ UNCHANGED pc
    /\ UNCHANGED <<resources, held, panicking, entryRef, aborted>>
    /\ UNCHANGED lvars

\* The rest of a get that can lock: fetch_add(1), then the guard is returned.
get_acquire(t) ==
    /\ ~aborted
    /\ pc[t].at = "try_lock_shared"
    /\ LET ty == pc[t].ty IN
        /\ resources' = SetCounter(ty, lock_shared_unchecked(resources[ty].counter))
        /\ held' = [held EXCEPT ![t][ty].sh = @ + 1]
        /\ ret' = Ret(t, "get", ty, "Ok", resources[ty].value)
    /\ pc' = [pc EXCEPT ![t] = Idle]
    /\ UNCHANGED <<panicking, entryRef, aborted>>
    /\ UNCHANGED lvars

\* Resources::get_mut up to and including the load in try_lock_exclusive.
get_mut(t, ty) ==
    /\ CanCall(t)
    /\ IF ty \notin DOMAIN resources
       THEN /\ ret' = Ret(t, "get_mut", ty, "NoSuchResource", NoVal)
            /\ UNCHANGED pc
       ELSE IF try_lock_exclusive(state(resources[ty].counter))
            THEN /\ HeldBy(t) < MaxHeld
                 /\ pc' = [pc EXCEPT ![t] = [at |-> "try_lock_exclusive", ty |-> ty]]
                 /\ UNCHANGED ret
            ELSE /\ ret' = Ret(t, "get_mut", ty, "Mutable", NoVal)
                 /\ UNCHANGED pc
    /\ UNCHANGED <<resources, held, panicking, entryRef, aborted>>
    /\ UNCHANGED lvars

\* The rest of a get_mut that can lock: store(-1), then the guard is returned.
get_mut_acquire(t) ==
    /\ ~aborted
    /\ pc[t].at = "try_lock_exclusive"
    /\ LET ty == pc[t].ty IN
        /\ resources' = SetCounter(ty, lock_exclusive_unchecked(resources[ty].counter))
        /\ held' = [held EXCEPT ![t][ty].ex = @ + 1]
        /\ ret' = Ret(t, "get_mut", ty, "Ok", resources[ty].value)
    /\ pc' = [pc EXCEPT ![t] = Idle]
    /\ UNCHANGED <<panicking, entryRef, aborted>>
    /\ UNCHANGED lvars

\* DerefMut on a RefMut the thread owns: the payload is overwritten.
deref_mut(t, ty, v) ==
    /\ CanCall(t)
    /\ held[t][ty].ex > 0
    /\ resources[ty].value # v
    /\ resources' = [resources EXCEPT ![ty].value = v]
    /\ ret' = Ret(t, "deref_mut", ty, "Ok", v)
    /\ UNCHANGED <<pc, held, panicking, entryRef, aborted>>
    /\ UNCHANGED lvars

\* ------------------------------------------------------- guard drops
\* A panic raised in thread t: it starts unwinding, or, if it is already
\* unwinding, the process aborts.
Panic(t) ==
    /\ panicking' = [panicking EXCEPT ![t] = TRUE]
    /\ aborted' = panicking[t]

\* Drop of a Ref: unlock_shared up to and including its state() load.
\* A thread that is unwinding drops the guards it still owns.
drop_Ref(t, ty) ==
    /\ ~aborted
    /\ pc[t] = Idle
    /\ held[t][ty].sh > 0
    /\ IF unlock_shared(state(resources[ty].counter)) = "unlock"
       THEN /\ pc' = [pc EXCEPT ![t] = [at |-> "unlock_shared", ty |-> ty]]
            /\ UNCHANGED <<held, panicking, aborted, ret>>
       ELSE /\ held' = [held EXCEPT ![t][ty].sh = @ - 1]
            /\ Panic(t)
            /\ ret' = Ret(t, "drop_Ref", ty, "panic", NoVal)
            /\ UNCHANGED pc
    /\ UNCHANGED <<resources, entryRef>>
    /\ UNCHANGED lvars

\* The rest of a Ref's drop: fetch_sub(1).
drop_Ref_release(t) ==
    /\ ~aborted
    /\ pc[t].at = "unlock_shared"
    /\ LET ty == pc[t].ty IN
        /\ resources' = SetCounter(ty, unlock_shared_unchecked(resources[ty].counter))
        /\ held' = [held EXCEPT ![t][ty].sh = @ - 1]
        /\ ret' = Ret(t, "drop_Ref", ty, "Ok", NoVal)
    /\ pc' = [pc EXCEPT ![t] = Idle]
    /\ UNCHANGED <<panicking, entryRef, aborted>>
    /\ UNCHANGED lvars

\* Drop of a RefMut: unlock_exclusive up to and including its state() load.
drop_RefMut(t, ty) ==
    /\ ~aborted
    /\ pc[t] = Idle
    /\ held[t][ty].ex > 0
    /\ IF unlock_exclusive(state(resources[ty].counter)) = "unlock"
       THEN /\ pc' = [pc EXCEPT ![t] = [at |-> "unlock_exclusive", ty |-> ty]]
            /\ UNCHANGED <<held, panicking, aborted, ret>>
       ELSE /\ held' = [held EXCEPT ![t][ty].ex = @ - 1]
            /\ Panic(t)
            /\ ret' = Ret(t, "drop_RefMut", ty, "panic", NoVal)
            /\ UNCHANGED pc
    /\ UNCHANGED <<resources, entryRef>>
    /\ UNCHANGED lvars

\* The rest of a RefMut's drop: store(0).
drop_RefMut_release(t) ==
    /\ ~aborted
    /\ pc[t].at = "unlock_exclusive"
    /\ LET ty == pc[t].ty IN
        /\ resources' = SetCounter(ty, unlock_exclusive_unchecked(resources[ty].counter))
        /\ held' = [held EXCEPT ![t][ty].ex = @ - 1]
        /\ ret' = Ret(t, "drop_RefMut", ty, "Ok", NoVal)
    /\ pc' = [pc EXCEPT ![t] = Idle]
    /\ UNCHANGED <<panicking, entryRef, aborted>>
    /\ UNCHANGED lvars

\* The unwinding thread has dropped everything it owned: it is gone, and
\* its place is taken by a fresh worker.
unwind_done(t) ==
    /\ ~aborted
    /\ panicking[t]
    /\ pc[t] = Idle
    /\ held[t] = NoGuards
    /\ panicking' = [panicking EXCEPT ![t] = FALSE]
    /\ UNCHANGED <<resources, pc, held, entryRef, aborted, ret>>
    /\ UNCHANGED lvars

\* ------------------------------------------- map.rs: structural access
\* Mutant of insert: an existing slot keeps its lock and only the payload
\* is swapped.
insert_keeps_lock(ty, v) ==
    /\ Quiescent
    /\ resources' = [x \in DOMAIN resources \cup {ty} |->
                        IF x # ty THEN resources[x]
                        ELSE IF ty \in DOMAIN resources
                             THEN [value |-> v, counter |-> resources[ty].counter]
                             ELSE [value |-> v, counter |-> INIT]]
    /\ ret' = IF ty \in DOMAIN resources
              THEN Ret(Owner, "insert", ty, "Some", resources[ty].value)
              ELSE Ret(Owner, "insert", ty, "None", NoVal)
    /\ UNCHANGED <<pc, held, panicking, entryRef, aborted>>
    /\ UNCHANGED lvars

\* Resources::insert: the slot is replaced by a new lock around the value.
insert(ty, v) ==
    /\ Quiescent
    /\ resources' = [x \in DOMAIN resources \cup {ty} |->
                        IF x = ty THEN [value |-> v, counter |-> INIT]
                        ELSE resources[x]]
    /\ ret' = IF ty \in DOMAIN resources
              THEN Ret(Owner, "insert", ty, "Some", resources[ty].value)
              ELSE Ret(Owner, "insert", ty, "None", NoVal)
    /\ UNCHANGED <<pc, held, panicking, entryRef, aborted>>
    /\ UNCHANGED lvars

\* Mutant of remove: the value is looked up and returned, the slot stays.
remove_keeps_slot(ty) ==
    /\ Quiescent
    /\ UNCHANGED resources
    /\ ret' = IF ty \in DOMAIN resources
              THEN Ret(Owner, "remove", ty, "Some", resources[ty].value)
              ELSE Ret(Owner, "remove", ty, "None", NoVal)
    /\ UNCHANGED <<pc, held, panicking, entryRef, aborted>>
    /\ UNCHANGED lvars

\* Resources::remove.
remove(ty) ==
    /\ Quiescent
    /\ resources' = [x \in DOMAIN resources \ {ty} |-> resources[x]]
    /\ ret' = IF ty \in DOMAIN resources
              THEN Ret(Owner, "remove", ty, "Some", resources[ty].value)
              ELSE Ret(Owner, "remove", ty, "None", NoVal)
    /\ UNCHANGED <<pc, held, panicking, entryRef, aborted>>
    /\ UNCHANGED lvars

\* Resources::entry: which variant the map's entry is.
entry(rs, ty) == IF ty \in DOMAIN rs THEN "Occupied" ELSE "Vacant"

\* RefMut::from_lock on a lock whose counter is c: the counter afterwards,
\* and whether a guard was returned.
RefMut_from_lock(c) ==
    IF try_lock_exclusive(state(c))
    THEN [ok |-> TRUE, counter |-> lock_exclusive_unchecked(c)]
    ELSE [ok |-> FALSE, counter |-> c]

\* Entry::and_modify on the container rs: OccupiedEntry::get_mut (which
\* panics unless the lock is acquired), f on the payload, then the drop of
\* the temporary RefMut.  A vacant entry is passed through.
and_modify(rs, ty, f) ==
    IF entry(rs, ty) = "Vacant" THEN [panic |-> FALSE, resources |-> rs]
    ELSE LET g == RefMut_from_lock(rs[ty].counter) IN
         IF ~g.ok THEN [panic |-> TRUE, resources |-> rs]
         ELSE IF unlock_exclusive(state(g.counter)) # "unlock"
              THEN [panic |-> TRUE,
                    resources |-> [rs EXCEPT ![ty] = [value |-> f[rs[ty].value],
                                                      counter |-> g.counter]]]
              ELSE [panic |-> FALSE,
                    resources |-> [rs EXCEPT ![ty] =
                        [value |-> f[rs[ty].value],
                         counter |-> unlock_exclusive_unchecked(g.counter)]]]

\* Entry::or_insert_with on the container rs: OccupiedEntry::into_mut or
\* VacantEntry::insert, either of which panics unless the lock is acquired.
or_insert_with(rs, ty, d) ==
    LET filled == IF entry(rs, ty) = "Occupied" THEN rs
                  ELSE [x \in DOMAIN rs \cup {ty} |->
                            IF x = ty THEN [value |-> d, counter |-> INIT]
                            ELSE rs[x]]
        g == RefMut_from_lock(filled[ty].counter)
    IN  [panic |-> ~g.ok,
         resources |-> [filled EXCEPT ![ty].counter = g.counter]]

\* entry::<T>().or_insert(d), or_insert_with(|| d), or_default() with d the
\* default: the RefMut returned borrows the container until it is dropped.
or_insert(ty, d) ==
    /\ Quiescent
    /\ LET r == or_insert_with(resources, ty, d) IN
        /\ resources' = r.resources
        /\ entryRef' = IF r.panic THEN NoType ELSE ty
        /\ aborted' = r.panic
        /\ ret' = IF r.panic THEN Ret(Owner, "or_insert", ty, "panic", NoVal)
                  ELSE Ret(Owner, "or_insert", ty, "Ok", r.resources[ty].value)
    /\ UNCHANGED <<pc, held, panicking>>
    /\ UNCHANGED lvars

\* entry::<T>().and_modify(f).or_insert(d).
and_modify_or_insert(ty, f, d) ==
    /\ Quiescent
    /\ LET m == and_modify(resources, ty, f)
           r == IF m.panic THEN m ELSE or_insert_with(m.resources, ty, d)
       IN
        /\ resources' = r.resources
        /\ entryRef' = IF r.panic THEN NoType ELSE ty
        /\ aborted' = r.panic
        /\ ret' = IF r.panic
                  THEN Ret(Owner, "and_modify_or_insert", ty, "panic", NoVal)
                  ELSE Ret(Owner, "and_modify_or_insert", ty, "Ok",
                           r.resources[ty].value)
    /\ UNCHANGED <<pc, held, panicking>>
    /\ UNCHANGED lvars

\* Ref::from_lock on a lock whose counter is c: the counter afterwards,
\* and whether a guard was returned.
Ref_from_lock(c) ==
    IF try_lock_shared(state(c))
    THEN [ok |-> TRUE, counter |-> lock_shared_unchecked(c)]
    ELSE [ok |-> FALSE, counter |-> c]

\* entry::<T>() matched as Occupied, then OccupiedEntry::get: the Ref is
\* acquired (or the expect panics), read, and dropped while the entry still
\* borrows the container, so no other call runs in between.
OccupiedEntry_get(ty) ==
    /\ Quiescent
    /\ entry(resources, ty) = "Occupied"
    /\ LET g == Ref_from_lock(resources[ty].counter) IN
       IF ~g.ok
       THEN /\ aborted' = TRUE
            /\ ret' = Ret(Owner, "OccupiedEntry_get", ty, "panic", NoVal)
            /\ UNCHANGED resources
       ELSE IF unlock_shared(state(g.counter)) # "unlock"
       THEN /\ aborted' = TRUE
            /\ ret' = Ret(Owner, "OccupiedEntry_get", ty, "drop_panic", NoVal)
            /\ resources' = SetCounter(ty, g.counter)
       ELSE /\ UNCHANGED aborted
            /\ ret' = Ret(Owner, "OccupiedEntry_get", ty, "Ok",
                          resources[ty].value)
            /\ resources' = SetCounter(ty, unlock_shared_unchecked(g.counter))
    /\ UNCHANGED <<pc, held, panicking, entryRef>>
    /\ UNCHANGED lvars

\* entry::<T>() matched as Occupied, then OccupiedEntry::insert: the slot's
\* lock is replaced by a new one around the value, the old value returned.
OccupiedEntry_insert(ty, v) ==
    /\ Quiescent
    /\ entry(resources, ty) = "Occupied"
    /\ resources' = [resources EXCEPT ![ty] = [value |-> v, counter |-> INIT]]
    /\ ret' = Ret(Owner, "OccupiedEntry_insert", ty, "Ok", resources[ty].value)
    /\ UNCHANGED <<pc, held, panicking, entryRef, aborted>>
    /\ UNCHANGED lvars

\* entry::<T>() matched as Occupied, then OccupiedEntry::remove.
OccupiedEntry_remove(ty) ==
    /\ Quiescent
    /\ entry(resources, ty) = "Occupied"
    /\ resources' = [x \in DOMAIN resources \ {ty} |-> resources[x]]
    /\ ret' = Ret(Owner, "OccupiedEntry_remove", ty, "Ok", resources[ty].value)
    /\ UNCHANGED <<pc, held, panicking, entryRef, aborted>>
    /\ UNCHANGED lvars

\* entry::<T>().and_modify(f), the entry it returns being dropped.
and_modify_entry(ty, f) ==
    /\ Quiescent
    /\ LET m == and_modify(resources, ty, f) IN
        /\ resources' = m.resources
        /\ aborted' = m.panic
        /\ ret' = IF m.panic
                  THEN Ret(Owner, "and_modify", ty, "panic", NoVal)
                  ELSE Ret(Owner, "and_modify", ty, entry(resources, ty), NoVal)
    /\ UNCHANGED <<pc, held, panicking, entryRef>>
    /\ UNCHANGED lvars

\* DerefMut on the RefMut an entry call returned.
entry_deref_mut(v) ==
    /\ ~aborted
    /\ entryRef # NoType
    /\ resources[entryRef].value # v
    /\ resources' = [resources EXCEPT ![entryRef].value = v]
    /\ ret' = Ret(Owner, "deref_mut", entryRef, "Ok", v)
    /\ UNCHANGED <<pc, held, panicking, entryRef, aborted>>
    /\ UNCHANGED lvars

\* Drop of the RefMut an entry call returned: nothing else can run in
\* between the two steps of unlock_exclusive, the container being borrowed.
entry_drop ==
    /\ ~aborted
    /\ entryRef # NoType
    /\ LET c == resources[entryRef].counter IN
       IF unlock_exclusive(state(c)) = "unlock"
       THEN /\ resources' = SetCounter(entryRef, unlock_exclusive_unchecked(c))
            /\ ret' = Ret(Owner, "drop_RefMut", entryRef, "Ok", NoVal)
            /\ UNCHANGED aborted
       ELSE /\ aborted' = TRUE
            /\ ret' = Ret(Owner, "drop_RefMut", entryRef, "panic", NoVal)
            /\ UNCHANGED resources
    /\ entryRef' = NoType
    /\ UNCHANGED <<pc, held, panicking>>
    /\ UNCHANGED lvars

\* ------------------------------------------------------------ Next
Next ==
    \/ \E t \in Threads, ty \in Types : contains(t, ty)
    \/ \E t \in Threads, ty \in Types : get(t, ty)
    \/ \E t \in Threads : get_acquire(t)
    \/ \E t \in Threads, ty \in Types : get_mut(t, ty)
    \/ \E t \in Threads : get_mut_acquire(t)
    \/ \E t \in Threads, ty \in Types, v \in Values : deref_mut(t, ty, v)
    \/ \E t \in Threads, ty \in Types : drop_Ref(t, ty)
    \/ \E t \in Threads : drop_Ref_release(t)
    \/ \E t \in Threads, ty \in Types : drop_RefMut(t, ty)
    \/ \E t \in Threads : drop_RefMut_release(t)
    \/ \E t \in Threads : unwind_done(t)
    \/ \E ty \in Types, v \in Values : insert(ty, v)
    \/ \E ty \in Types : remove(ty)
    \/ \E ty \in Types, d \in Values : or_insert(ty, d)
    \/ \E ty \in Types, f \in Fns, d \in Values : and_modify_or_insert(ty, f, d)
    \/ \E ty \in Types, f \in Fns : and_modify_entry(ty, f)
    \/ \E ty \in Types : OccupiedEntry_get(ty)
    \/ \E ty \in Types, v \in Values : OccupiedEntry_insert(ty, v)
    \/ \E ty \in Types : OccupiedEntry_remove(ty)
    \/ \E v \in Values : entry_deref_mut(v)
    \/ entry_drop

Spec == Init /\ [][Next]_vars

TypeOK ==
    /\ DOMAIN resources \subseteq Types
    /\ \A ty \in DOMAIN resources :
        resources[ty].value \in Values /\ resources[ty].counter \in Int
    /\ entryRef \in Types \cup {NoType}
    /\ aborted \in BOOLEAN


\* ------------------------------------------- lock.rs through RawRwLock
\* A ResourcesRwLock called directly through its RawRwLock methods, each
\* call stepped like the calls above, with the calls that returned kept in
\* `hist` together with how many calls had returned when they were made.
MaxCalls == 4

\* Every arm of the match in lock_shared / lock_exclusive after a failed
\* try: panic!() or unreachable!(), whatever state() reads.
lock_failed(st) ==
    CASE st = "Free" -> "panic"
      [] st = "Exclusive" -> "panic"
      [] st = "Shared" -> "panic"

MayCall(t) ==
    /\ at[t] = NotCalling
    /\ Len(hist) + Cardinality({u \in Threads : at[u] # NotCalling}) < MaxCalls

Called(t, op, next) ==
    /\ at' = [at EXCEPT ![t] = [op |-> op, next |-> next, inv |-> Len(hist)]]
    /\ UNCHANGED hist

Returned(t, op, res, inv) ==
    hist' = Append(hist, [t |-> t, op |-> op, res |-> res, inv |-> inv])

raw_try_lock_shared(t) ==
    /\ MayCall(t)
    /\ IF try_lock_shared(state(lock))
       THEN Called(t, "try_lock_shared", "lock_shared_unchecked")
       ELSE Returned(t, "try_lock_shared", "false", Len(hist)) /\ UNCHANGED at
    /\ UNCHANGED <<lock, owns>>
    /\ UNCHANGED cvars

raw_lock_shared(t) ==
    /\ MayCall(t)
    /\ IF try_lock_shared(state(lock))
       THEN Called(t, "lock_shared", "lock_shared_unchecked")
       ELSE Called(t, "lock_shared", "state")
    /\ UNCHANGED <<lock, owns>>
    /\ UNCHANGED cvars

raw_try_lock_exclusive(t) ==
    /\ MayCall(t)
    /\ IF try_lock_exclusive(state(lock))
       THEN Called(t, "try_lock_exclusive", "lock_exclusive_unchecked")
       ELSE Returned(t, "try_lock_exclusive", "false", Len(hist)) /\ UNCHANGED at
    /\ UNCHANGED <<lock, owns>>
    /\ UNCHANGED cvars

raw_lock_exclusive(t) ==
    /\ MayCall(t)
    /\ IF try_lock_exclusive(state(lock))
       THEN Called(t, "lock_exclusive", "lock_exclusive_unchecked")
       ELSE Called(t, "lock_exclusive", "state")
    /\ UNCHANGED <<lock, owns>>
    /\ UNCHANGED cvars

\* The second state() of a lock_shared / lock_exclusive whose try failed.
raw_lock_failed(t) ==
    /\ at[t].next = "state"
    /\ Returned(t, at[t].op, lock_failed(state(lock)), at[t].inv)
    /\ at' = [at EXCEPT ![t] = NotCalling]
    /\ UNCHANGED <<lock, owns>>
    /\ UNCHANGED cvars

\* A thread unlocks only what it locked.
raw_unlock_shared(t) ==
    /\ MayCall(t)
    /\ owns[t].sh > 0
    /\ IF unlock_shared(state(lock)) = "unlock"
       THEN Called(t, "unlock_shared", "unlock_shared_unchecked") /\ UNCHANGED owns
       ELSE /\ Returned(t, "unlock_shared", "panic", Len(hist))
            /\ owns' = [owns EXCEPT ![t].sh = @ - 1]
            /\ UNCHANGED at
    /\ UNCHANGED lock
    /\ UNCHANGED cvars

raw_unlock_exclusive(t) ==
    /\ MayCall(t)
    /\ owns[t].ex > 0
    /\ IF unlock_exclusive(state(lock)) = "unlock"
       THEN Called(t, "unlock_exclusive", "unlock_exclusive_unchecked") /\ UNCHANGED owns
       ELSE /\ Returned(t, "unlock_exclusive", "panic", Len(hist))
            /\ owns' = [owns EXCEPT ![t].ex = @ - 1]
            /\ UNCHANGED at
    /\ UNCHANGED lock
    /\ UNCHANGED cvars

\* What a call that acquired returns: a bool from try_lock_*, () from lock_*.
Acquired(op) == IF op \in {"try_lock_shared", "try_lock_exclusive"} THEN "true" ELSE "ok"

raw_lock_shared_unchecked(t) ==
    /\ at[t].next = "lock_shared_unchecked"
    /\ lock' = lock_shared_unchecked(lock)
    /\ owns' = [owns EXCEPT ![t].sh = @ + 1]
    /\ Returned(t, at[t].op, Acquired(at[t].op), at[t].inv)
    /\ at' = [at EXCEPT ![t] = NotCalling]
    /\ UNCHANGED cvars

raw_lock_exclusive_unchecked(t) ==
    /\ at[t].next = "lock_exclusive_unchecked"
    /\ lock' = lock_exclusive_unchecked(lock)
    /\ owns' = [owns EXCEPT ![t].ex = @ + 1]
    /\ Returned(t, at[t].op, Acquired(at[t].op), at[t].inv)
    /\ at' = [at EXCEPT ![t] = NotCalling]
    /\ UNCHANGED cvars

raw_unlock_shared_unchecked(t) ==
    /\ at[t].next = "unlock_shared_unchecked"
    /\ lock' = unlock_shared_unchecked(lock)
    /\ owns' = [owns EXCEPT ![t].sh = @ - 1]
    /\ Returned(t, at[t].op, "ok", at[t].inv)
    /\ at' = [at EXCEPT ![t] = NotCalling]
    /\ UNCHANGED cvars

raw_unlock_exclusive_unchecked(t) ==
    /\ at[t].next = "unlock_exclusive_unchecked"
    /\ lock' = unlock_exclusive_unchecked(lock)
    /\ owns' = [owns EXCEPT ![t].ex = @ - 1]
    /\ Returned(t, at[t].op, "ok", at[t].inv)
    /\ at' = [at EXCEPT ![t] = NotCalling]
    /\ UNCHANGED cvars

LockNext ==
    \/ \E t \in Threads : raw_try_lock_shared(t)
    \/ \E t \in Threads : raw_lock_shared(t)
    \/ \E t \in Threads : raw_try_lock_exclusive(t)
    \/ \E t \in Threads : raw_lock_exclusive(t)
    \/ \E t \in Threads : raw_lock_failed(t)
    \/ \E t \in Threads : raw_unlock_shared(t)
    \/ \E t \in Threads : raw_unlock_exclusive(t)
    \/ \E t \in Threads : raw_lock_shared_unchecked(t)
    \/ \E t \in Threads : raw_lock_exclusive_unchecked(t)
    \/ \E t \in Threads : raw_unlock_shared_unchecked(t)
    \/ \E t \in Threads : raw_unlock_exclusive_unchecked(t)

LockSpec == Init /\ [][LockNext]_vars

\* ------------------------------------------------ sequential executions
\* One RawRwLock call run on counter c with no other call in between:
\* the counter it leaves and what it returns.
Atomic(c, op) ==
    CASE op = "try_lock_shared" ->
            IF try_lock_shared(state(c))
            THEN [lock |-> lock_shared_unchecked(c), res |-> "true"]
            ELSE [lock |-> c, res |-> "false"]
      [] op = "lock_shared" ->
            IF try_lock_shared(state(c))
            THEN [lock |-> lock_shared_unchecked(c), res |-> "ok"]
            ELSE [lock |-> c, res |-> lock_failed(state(c))]
      [] op = "try_lock_exclusive" ->
            IF try_lock_exclusive(state(c))
            THEN [lock |-> lock_exclusive_unchecked(c), res |-> "true"]
            ELSE [lock |-> c, res |-> "false"]
      [] op = "lock_exclusive" ->
            IF try_lock_exclusive(state(c))
            THEN [lock |-> lock_exclusive_unchecked(c), res |-> "ok"]
            ELSE [lock |-> c, res |-> lock_failed(state(c))]
      [] op = "unlock_shared" ->
            IF unlock_shared(state(c)) = "unlock"
            THEN [lock |-> unlock_shared_unchecked(c), res |-> "ok"]
            ELSE [lock |-> c, res |-> "panic"]
      [] op = "unlock_exclusive" ->
            IF unlock_exclusive(state(c)) = "unlock"
            THEN [lock |-> unlock_exclusive_unchecked(c), res |-> "ok"]
            ELSE [lock |-> c, res |-> "panic"]

\* The calls of h run one at a time in the order ord, from position k on
\* counter c: whether each returns what h says it returned, and the counter
\* at the end.
RECURSIVE RunInOrder(_, _, _, _)
RunInOrder(h, ord, k, c) ==
    IF k > Len(h) THEN [ok |-> TRUE, lock |-> c]
    ELSE LET a == Atomic(c, h[ord[k]].op) IN
         IF a.res # h[ord[k]].res THEN [ok |-> FALSE, lock |-> c]
         ELSE RunInOrder(h, ord, k + 1, a.lock)

\* Call i of h returned before call j of h was made.
ReturnedBefore(h, i, j) == i <= h[j].inv

\* Some order of the calls of h, consistent with their real-time order,
\* run one call at a time from a Free lock, returns the same results and
\* ends with counter c.
Linearizable(h, c) ==
    \E ord \in Permutations(1 .. Len(h)) :
        /\ \A i, j \in 1 .. Len(h) : i < j => ~ReturnedBefore(h, ord[j], ord[i])
        /\ LET r == RunInOrder(h, ord, 1, INIT) IN r.ok /\ r.lock = c

\* C6: per-slot linearizability: once the calls made on a lock have all
\* returned, their results and the counter are those of some sequential
\* execution of the same calls in an order consistent with real time.
C6_Linearizable ==
    (\A t \in Threads : at[t] = NotCalling) => Linearizable(hist, lock)

\* ------------------------------------------------------------ outcomes
\* What a get / get_mut step of thread t settles: the error it returns
\* at once, or "guard" when the call goes on to acquire the lock.
Outcome(t) == IF pc'[t] # Idle THEN "guard" ELSE ret'.res

\* A call of another thread is between the load and the store of
\* try_lock_exclusive on the slot.
GetMutInProgress(ty) ==
    \E t \in Threads : pc[t] = [at |-> "try_lock_exclusive", ty |-> ty]

\* The container as the error cases must leave it.
Untouched == UNCHANGED <<resources, held, entryRef>>

\* C1: mutual exclusion per slot: no reachable state has two live exclusive
\* guards, or a live exclusive guard together with a live shared guard, on
\* the same slot.
C1_MutualExclusion ==
    \A ty \in Types :
        /\ LiveExclusive(ty) <= 1
        /\ LiveExclusive(ty) = 0 \/ LiveShared(ty) = 0

\* C2: get::<T>() returns NoSuchResource iff there is no slot for T,
\* InvalidBorrow::Immutable if the slot is exclusively held, and otherwise a
\* shared guard, the reader count growing by exactly one; the error cases
\* change neither the slots, the values nor the lock states.
C2_GetOutcome ==
    [][\A t \in Threads, ty \in Types :
        /\ get(t, ty) =>
            /\ Outcome(t) = "NoSuchResource" <=> ty \notin DOMAIN resources
            /\ ty \in DOMAIN resources =>
                Outcome(t) = (IF LiveExclusive(ty) > 0 THEN "Immutable" ELSE "guard")
            /\ Outcome(t) # "guard" => Untouched
        /\ (get_acquire(t) /\ pc[t].ty = ty) =>
            /\ resources'[ty].counter = resources[ty].counter + 1
            /\ LiveShared(ty)' = LiveShared(ty) + 1
      ]_vars

\* C3: get_mut::<T>() returns NoSuchResource iff there is no slot for T,
\* InvalidBorrow::Mutable if the slot is held by a shared or an exclusive
\* guard, and otherwise an exclusive guard, the slot becoming Exclusive; the
\* error cases change neither the slots, the values nor the lock states.
C3_GetMutOutcome ==
    [][\A t \in Threads, ty \in Types :
        /\ get_mut(t, ty) =>
            /\ Outcome(t) = "NoSuchResource" <=> ty \notin DOMAIN resources
            /\ ty \in DOMAIN resources =>
                Outcome(t) = (IF LiveExclusive(ty) + LiveShared(ty) > 0
                              THEN "Mutable" ELSE "guard")
            /\ Outcome(t) # "guard" => Untouched
        /\ (get_mut_acquire(t) /\ pc[t].ty = ty) =>
            /\ state(resources'[ty].counter) = "Exclusive"
            /\ LiveExclusive(ty)' = LiveExclusive(ty) + 1
      ]_vars

\* The second step of whatever call thread t is in the middle of.
Finish(t) ==
    \/ get_acquire(t)
    \/ get_mut_acquire(t)
    \/ drop_Ref_release(t)
    \/ drop_RefMut_release(t)

\* C4: no operation blocks: a thread in the middle of a get, a get_mut or a
\* guard drop can always take its next step, whatever the other threads do,
\* and that step ends the call; and a get_mut::<T>() issued while another
\* thread holds an exclusive guard on T returns InvalidBorrow::Mutable.
C4_NeverBlocks ==
    [][\A t \in Threads :
        /\ (pc[t] # Idle /\ ~aborted) => ENABLED Finish(t)
        /\ Finish(t) => pc'[t] = Idle
        /\ \A ty \in Types :
            (get_mut(t, ty) /\ \E u \in Threads \ {t} : held[u][ty].ex > 0) =>
                Outcome(t) = "Mutable"
      ]_vars

\* The part of C4 that is about waiting alone: a call in progress can always
\* take its next step, and that step ends it.
NeverWaits ==
    [][\A t \in Threads :
        /\ (pc[t] # Idle /\ ~aborted) => ENABLED Finish(t)
        /\ Finish(t) => pc'[t] = Idle
      ]_vars

\* C5: on a slot that exists, with no exclusive guard alive and no get_mut
\* in progress, every get::<T>() succeeds, whatever the other threads' gets
\* and shared-guard drops do.
C5_ReadersSucceed ==
    [][\A t \in Threads, ty \in Types :
        (/\ get(t, ty)
         /\ ty \in DOMAIN resources
         /\ LiveExclusive(ty) = 0
         /\ ~GetMutInProgress(ty)) => Outcome(t) = "guard"
      ]_vars

\* C7: a guard's hold lasts exactly until its drop: while an exclusive guard
\* on T is alive every get::<T>() fails with InvalidBorrow::Immutable; its
\* drop leaves the slot Free, and a get that then succeeds observes the
\* value the slot holds, the one written through the exclusive guard.
C7_HoldUntilDrop ==
    [][\A t \in Threads, ty \in Types :
        /\ (get(t, ty) /\ ty \in DOMAIN resources /\ LiveExclusive(ty) > 0) =>
            Outcome(t) = "Immutable"
        /\ (drop_RefMut_release(t) /\ pc[t].ty = ty) =>
            /\ state(resources'[ty].counter) = "Free"
            /\ LiveExclusive(ty)' = 0
        /\ (get_acquire(t) /\ pc[t].ty = ty) => ret'.val = resources'[ty].value
      ]_vars

\* The slots of the types other than ty are what they were.
OthersUnchanged(ty) ==
    \A u \in Types \ {ty} :
        /\ u \in DOMAIN resources' <=> u \in DOMAIN resources
        /\ u \in DOMAIN resources => resources'[u] = resources[u]

\* C8: insert::<T>(v) returns None when T had no slot and the stored value
\* when it had one; afterwards T has a slot, Free and holding v, the get or
\* get_mut that follows at once succeeds, and the other slots are unchanged.
C8_Insert ==
    [][\A ty \in Types :
        /\ \A v \in Values : insert(ty, v) =>
            /\ ret'.res = (IF ty \in DOMAIN resources THEN "Some" ELSE "None")
            /\ ret'.val = (IF ty \in DOMAIN resources THEN resources[ty].value ELSE NoVal)
            /\ ty \in DOMAIN resources'
            /\ resources'[ty].value = v
            /\ state(resources'[ty].counter) = "Free"
            /\ LiveShared(ty)' = 0 /\ LiveExclusive(ty)' = 0
            /\ OthersUnchanged(ty)
        /\ \A t \in Threads :
            (/\ ret.op = "insert" /\ ret.ty = ty
             /\ get(t, ty) \/ get_mut(t, ty)) => Outcome(t) = "guard"
        /\ \A t \in Threads :
            (/\ ret.op = "insert" /\ ret.ty = ty /\ pc[t].ty = ty
             /\ get_acquire(t) \/ get_mut_acquire(t)) =>
                ret'.res = "Ok" /\ ret'.val = resources[ty].value
      ]_vars

\* An insert has replaced a stored value by another one, a second type has
\* its slot, and a get on the new slot is under way.
C8_Witness ==
    /\ ret.op = "insert" /\ ret.res = "Some"
    /\ ret.val # resources[ret.ty].value
    /\ DOMAIN resources # {ret.ty}
    /\ \E t \in Threads : pc[t] = [at |-> "try_lock_shared", ty |-> ret.ty]

\* C9: remove::<T>() without a slot for T returns None and changes nothing;
\* with a slot it returns the stored value and deletes only that slot, so
\* that contains::<T>() is false and get / get_mut return NoSuchResource.
C9_Remove ==
    [][\A ty \in Types :
        /\ remove(ty) =>
            /\ ty \notin DOMAIN resources =>
                ret'.res = "None" /\ ret'.val = NoVal /\ Untouched
            /\ ty \in DOMAIN resources =>
                ret'.res = "Some" /\ ret'.val = resources[ty].value
            /\ ty \notin DOMAIN resources'
            /\ OthersUnchanged(ty)
        /\ \A t \in Threads :
            /\ (ret.op = "remove" /\ ret.ty = ty /\ contains(t, ty)) =>
                ret'.res = "false"
            /\ (/\ ret.op = "remove" /\ ret.ty = ty
                /\ get(t, ty) \/ get_mut(t, ty)) => Outcome(t) = "NoSuchResource"
      ]_vars

\* A remove has just deleted the slot of one type and returned its value,
\* while another type keeps its slot.
C9_Witness ==
    /\ ret.op = "remove" /\ ret.res = "Some"
    /\ ret.ty \notin DOMAIN resources
    /\ DOMAIN resources # {}

\* C10: entry::<T>().or_insert(d) creates a slot holding d when T is absent
\* and leaves the value untouched when T is present, returning an exclusive
\* guard either way; entry::<T>().and_modify(f).or_insert(d) stores f of the
\* old value when T is present and d, without calling f, when it is absent.
C10_Entry ==
    [][\A ty \in Types, d \in Values :
        /\ or_insert(ty, d) =>
            /\ entryRef' = ty /\ ret'.res = "Ok"
            /\ state(resources'[ty].counter) = "Exclusive"
            /\ resources'[ty].value =
                (IF ty \in DOMAIN resources THEN resources[ty].value ELSE d)
            /\ ret'.val = resources'[ty].value
        /\ \A f \in Fns : and_modify_or_insert(ty, f, d) =>
            /\ entryRef' = ty /\ ret'.res = "Ok"
            /\ resources'[ty].value =
                (IF ty \in DOMAIN resources THEN f[resources[ty].value] ELSE d)
      ]_vars

\* ------------------------------------------------------------ entry API
\* The calls of the entry API whose lock acquisition is unwrapped with
\* expect("entry API assumes unique access").
EntryCalls ==
    {"or_insert", "and_modify_or_insert", "and_modify", "OccupiedEntry_get"}

\* C11: the acquisitions of the entry API always succeed: after any
\* sequence of insert, remove, entry calls, get / get_mut calls and guard
\* drops, no get, get_mut or into_mut of an occupied entry and no insert of
\* a vacant entry panics with "entry API assumes unique access".
C11_EntryAcquires ==
    ~(ret.t = Owner /\ ret.op \in EntryCalls /\ ret.res = "panic")

\* ------------------------------------------------------------ contains
\* C12: contains::<T>() is true exactly when a slot for T exists (T was
\* inserted or entry-filled and not removed since), whatever the state of
\* the slot's lock: it returns at once, without a borrow error, and changes
\* neither a lock state nor the set of slots (which the container keeps as
\* a map, one slot at most for every type).
C12_Contains ==
    [][/\ \A t \in Threads, ty \in Types : contains(t, ty) =>
            /\ ret'.res = (IF ty \in DOMAIN resources THEN "true" ELSE "false")
            /\ pc'[t] = Idle
            /\ UNCHANGED <<resources, held, entryRef, panicking, aborted>>
       /\ \A ty \in Types :
            /\ (\E v \in Values : insert(ty, v) \/ OccupiedEntry_insert(ty, v)
                                  \/ or_insert(ty, v))
                    => ty \in DOMAIN resources'
            /\ (remove(ty) \/ OccupiedEntry_remove(ty))
                    => ty \notin DOMAIN resources'
            /\ (ty \in DOMAIN resources' <=> ty \in DOMAIN resources)
                \/ (\E v \in Values : insert(ty, v) \/ or_insert(ty, v))
                \/ (\E v \in Values, f \in Fns : and_modify_or_insert(ty, f, v))
                \/ remove(ty) \/ OccupiedEntry_remove(ty)
      ]_vars

\* contains returned true for a slot another thread holds exclusively.
C12_Witness ==
    /\ ret.op = "contains" /\ ret.res = "true"
    /\ LiveExclusive(ret.ty) = 1

\* ------------------------------------------------------------ lock state
\* C13: under any interleaving of guard creations and guard drops, the
\* counter of every slot's lock is 0 (Free), -1 (Exclusive) or a positive
\* number of readers: it is never below -1.
C13_CounterRange ==
    \A ty \in DOMAIN resources : resources[ty].counter >= -1

\* ------------------------------------------------------------ raw lock
\* The calls k and k+1 of the history h are a successful try-acquire and
\* the release of what it acquired, by the same thread.
AcquireReleasePair(h, k) ==
    /\ h[k].t = h[k + 1].t
    /\ h[k].res = "true" /\ h[k + 1].res = "ok"
    /\ \/ h[k].op = "try_lock_shared" /\ h[k + 1].op = "unlock_shared"
       \/ h[k].op = "try_lock_exclusive" /\ h[k + 1].op = "unlock_exclusive"

\* Every call of h was made after all the calls before it had returned, and
\* returned before any other call did: no two calls overlap.
NonOverlapping(h) == \A i \in 1..Len(h) : h[i].inv = i - 1

\* h is a sequence of acquire / release pairs that do not overlap.
NonOverlappingPairs(h) ==
    /\ NonOverlapping(h)
    /\ Len(h) % 2 = 0
    /\ \A k \in 1..Len(h) : k % 2 = 1 => AcquireReleasePair(h, k)

\* C14: from a Free lock, after any finite sequence of acquire / release
\* pairs that do not overlap (each successful try_lock_shared followed by
\* its unlock_shared, each successful try_lock_exclusive by its
\* unlock_exclusive, before the next acquire begins), the lock is Free.
C14_PairsRestoreFree ==
    ((\A t \in Threads : at[t] = NotCalling) /\ NonOverlappingPairs(hist))
        => lock = INIT /\ state(lock) = "Free"

\* Two pairs have run, a shared one and an exclusive one, by two threads.
C14_Witness ==
    /\ \A t \in Threads : at[t] = NotCalling
    /\ NonOverlappingPairs(hist)
    /\ Len(hist) = 4
    /\ hist[1].op = "try_lock_shared" /\ hist[3].op = "try_lock_exclusive"
    /\ hist[1].t # hist[3].t

\* The lock states as the specification names them: Free, Exclusive or
\* Shared(n) with n positive.
Free(c) == c = 0
Exclusive(c) == c = -1
Shared(c) == c > 0

\* Thread t takes the second step of its call op, and no other call has
\* returned (hence none has changed the counter) since t made the call.
Uninterfered(t, op) ==
    /\ at[t] # NotCalling
    /\ at[t].op = op
    /\ at[t].inv = Len(hist)
    /\ at'[t] = NotCalling

\* C15: a try-acquire that runs without interference follows the table:
\* try_lock_shared returns true and adds one to the counter iff the lock is
\* Free or Shared(n), and returns false leaving the counter as it is iff
\* the lock is Exclusive; try_lock_exclusive returns true and makes the
\* lock Exclusive iff it is Free, and returns false leaving the counter as
\* it is iff the lock is Shared(n) or Exclusive.
C15_TryAcquireTable ==
    [][\A t \in Threads :
        /\ (raw_try_lock_shared(t) /\ (Free(lock) \/ Shared(lock)))
            => /\ hist' = hist /\ lock' = lock
               /\ at'[t].next = "lock_shared_unchecked"
        /\ (raw_try_lock_shared(t) /\ Exclusive(lock))
            => /\ hist' = Append(hist, [t |-> t, op |-> "try_lock_shared",
                                       res |-> "false", inv |-> Len(hist)])
               /\ lock' = lock
        /\ (raw_lock_shared_unchecked(t) /\ Uninterfered(t, "try_lock_shared")
            /\ lock >= -1)
            => /\ Free(lock) \/ Shared(lock)
               /\ lock' = lock + 1
               /\ hist'[Len(hist')].res = "true"
        /\ (raw_try_lock_exclusive(t) /\ (Shared(lock) \/ Exclusive(lock)))
            => /\ hist' = Append(hist, [t |-> t, op |-> "try_lock_exclusive",
                                       res |-> "false", inv |-> Len(hist)])
               /\ lock' = lock
        /\ (raw_try_lock_exclusive(t) /\ Free(lock))
            => /\ hist' = hist /\ lock' = lock
               /\ at'[t].next = "lock_exclusive_unchecked"
        /\ (raw_lock_exclusive_unchecked(t)
            /\ Uninterfered(t, "try_lock_exclusive") /\ lock >= -1)
            => /\ Free(lock)
               /\ Exclusive(lock')
               /\ hist'[Len(hist')].res = "true"
      ]_vars

\* Calls that did not overlap went through three rows of the table:
\* try_lock_shared on a Free lock, try_lock_shared on a Shared one, and
\* try_lock_exclusive refused by the two readers.
C15_Witness ==
    /\ NonOverlapping(hist)
    /\ Len(hist) = 3
    /\ hist[1].op = "try_lock_shared" /\ hist[1].res = "true"
    /\ hist[2].op = "try_lock_shared" /\ hist[2].res = "true"
    /\ hist[3].op = "try_lock_exclusive" /\ hist[3].res = "false"
    /\ lock = 2

C17_AndModify ==
    [][\A ty \in Types, f \in Fns :
        /\ and_modify_entry(ty, f) =>
            IF entry(resources, ty) = "Occupied"
            THEN /\ ret'.res = "Occupied"
                 /\ resources'[ty].value = f[resources[ty].value]
                 /\ state(resources'[ty].counter) = "Free"
                 /\ entryRef' = NoType
            ELSE /\ ret'.res = "Vacant"
                 /\ resources' = resources
        /\ \A d \in Values : and_modify_or_insert(ty, f, d) =>
            /\ ret'.res = "Ok"
            /\ entryRef' = ty
            /\ state(resources'[ty].counter) = "Exclusive"
      ]_vars

\* Whenever and_modify returns, the slot it was given is Free or absent.
AndModifyReleases ==
    [][\A ty \in Types, f \in Fns :
        (and_modify_entry(ty, f) /\ ret'.res # "panic") =>
            /\ entryRef' = NoType
            /\ ty \in DOMAIN resources' => state(resources'[ty].counter) = "Free"
            /\ ty \notin DOMAIN resources => resources' = resources
      ]_vars

\* ------------------------------------------------------------ bookkeeping
\* No lock operation on the slot is between its load and its update.
NoneMidWay(ty) == \A t \in Threads : pc[t].ty # ty

\* C18: whenever no lock operation on a slot is mid-way, the slot's counter
\* agrees with its live guards: it is -1 iff exactly one exclusive guard and
\* no shared guard is alive, it is the number of live shared guards when no
\* exclusive guard is alive, and it is 0 iff no guard is alive.
C18_GuardBookkeeping ==
    \A ty \in DOMAIN resources : NoneMidWay(ty) =>
        LET c == resources[ty].counter IN
        /\ c = -1 <=> (LiveExclusive(ty) = 1 /\ LiveShared(ty) = 0)
        /\ LiveExclusive(ty) = 0 => c = LiveShared(ty)
        /\ c = 0 <=> (LiveExclusive(ty) = 0 /\ LiveShared(ty) = 0)

\* C19: the contract of the releases is never violated through get, get_mut
\* and guard drops, by any number of threads: the drop of a shared guard
\* never finds the lock Free or Exclusive and the drop of an exclusive guard
\* never finds it Free or Shared, so that the panics of unlock_shared and
\* unlock_exclusive are never reached.
C19_ReleaseContract ==
    [][\A t \in Threads, ty \in Types :
        /\ drop_Ref(t, ty) =>
            /\ state(resources[ty].counter) \notin {"Free", "Exclusive"}
            /\ pc'[t] = [at |-> "unlock_shared", ty |-> ty]
        /\ drop_RefMut(t, ty) =>
            /\ state(resources[ty].counter) \notin {"Free", "Shared"}
            /\ pc'[t] = [at |-> "unlock_exclusive", ty |-> ty]
      ]_vars

\* ------------------------------------------------------------ independence
\* Thread t takes a step of get::<T>(), of get_mut::<T>() or of the drop of
\* a guard on T, ty being T.
StepOn(t, ty) ==
    \/ get(t, ty) \/ get_mut(t, ty)
    \/ drop_Ref(t, ty) \/ drop_RefMut(t, ty)
    \/ /\ pc[t].ty = ty
       /\ \/ get_acquire(t) \/ get_mut_acquire(t)
          \/ drop_Ref_release(t) \/ drop_RefMut_release(t)

\* C20: slots of different types are independent: a get::<T>(), a
\* get_mut::<T>() or the drop of a guard on T changes T's lock state only,
\* and leaves the lock state, the value and the guards of every other type
\* U as they were; whether get::<U>() or get_mut::<U>() fails is decided
\* by U's slot alone, so an exclusive guard alive on T never makes them
\* fail.
C20_Independent ==
    [][\A t \in Threads, ty \in Types :
        /\ StepOn(t, ty) =>
            /\ OthersUnchanged(ty)
            /\ \A u \in Types \ {ty}, x \in Threads : held'[x][u] = held[x][u]
            /\ ty \in DOMAIN resources =>
                /\ ty \in DOMAIN resources'
                /\ resources'[ty].value = resources[ty].value
        /\ (ty \in DOMAIN resources
            /\ \E u \in Types \ {ty} : LiveExclusive(u) > 0) =>
            /\ get(t, ty) =>
                (Outcome(t) = "guard"
                    <=> state(resources[ty].counter) # "Exclusive")
            /\ get_mut(t, ty) =>
                (Outcome(t) = "guard"
                    <=> state(resources[ty].counter) = "Free")
      ]_vars

\* A get on one type has returned its guard while an exclusive guard on
\* the other type is alive.
C20_Witness ==
    /\ ret.op = "get" /\ ret.res = "Ok"
    /\ LiveShared(ret.ty) = 1
    /\ \E u \in Types \ {ret.ty} : LiveExclusive(u) = 1

====
